---- MODULE Spec2Model ----
(***************************************************************************)
(* A model of redis_assignment.py: the RedisClient loader, index manager   *)
(* and the five queries, together with the part of the Redis store they    *)
(* use (hashes, sorted sets, SCAN, the RediSearch index "user_index").     *)
(*                                                                         *)
(* Text is modelled as sequences of one-character strings, so that the     *)
(* tokenizer, float(), key.split(':') and tag matching work on characters  *)
(* as the code does.                                                       *)
(***************************************************************************)
EXTENDS Integers, Sequences, FiniteSets, TLC

VARIABLES
    parse,                  \* the tokenizer's last run: input line and parts
    hashes,                 \* store: key -> hash (field name -> value)
    zsets,                  \* store: key -> sorted set (member -> score)
    index,                  \* store: the RediSearch index "user_index", or NoIndex
    REDISEARCH_AVAILABLE,   \* module global set by the import at lines 8-17
    tableBits,              \* store: log2 of the size of the key-space hash table
    hashSeed,               \* store: the hash seed the server drew at start
    ret                     \* the last call of a RedisClient method and its result

vars == <<parse, hashes, zsets, index, REDISEARCH_AVAILABLE, tableBits, hashSeed, ret>>

(***************************************************************************)
(* Characters and strings                                                  *)
(***************************************************************************)
QUOTE == "\""
SPACE == " "

\* The characters the model uses, in ASCII order (position = rank).
AsciiOrder ==
    << " ", "\"", ",", "-", ".",
       "0", "1", "2", "3", "4", "5", "6", "7", "8", "9", ":", "@",
       "A", "B", "C", "D", "E", "F", "G", "H", "I", "J", "K", "L", "M",
       "N", "O", "P", "Q", "R", "S", "T", "U", "V", "W", "X", "Y", "Z", "_",
       "a", "b", "c", "d", "e", "f", "g", "h", "i", "j", "k", "l", "m",
       "n", "o", "p", "q", "r", "s", "t", "u", "v", "w", "x", "y", "z" >>

CharCode(c) == CHOOSE i \in 1..Len(AsciiOrder) : AsciiOrder[i] = c

DigitChars == <<"0", "1", "2", "3", "4", "5", "6", "7", "8", "9">>
IsDigit(c) == \E i \in 1..10 : DigitChars[i] = c
DigitVal(c) == (CHOOSE i \in 1..10 : DigitChars[i] = c) - 1

SeqToSet(s) == {s[i] : i \in 1..Len(s)}

(***************************************************************************)
(* RecordParser: the tokenizer loop of load_users (lines 60-84)            *)
(***************************************************************************)
\* A plausible slip: a closing quote flushes only a non-empty token.
CloseQuoteSkippingEmpty(parts, current) ==
    IF current # <<>> THEN Append(parts, current) ELSE parts

\* lines 69-72: a closing quote appends the current token, empty or not.
CloseQuote(parts, current) == Append(parts, current)

\* lines 76-78 and 83-84: flush the current token when it is not empty.
FlushNonEmpty(parts, current) ==
    IF current # <<>> THEN Append(parts, current) ELSE parts

\* the loop's variables before the first character (lines 62-64)
TokenizerStart == [parts |-> <<>>, current |-> <<>>, in_quotes |-> FALSE]

\* one pass of the loop body, lines 68-80, on the character c
TokenizeChar(st, c) ==
    IF c = QUOTE THEN
        IF st.in_quotes
        THEN [parts |-> CloseQuote(st.parts, st.current), current |-> <<>>,
              in_quotes |-> FALSE]
        ELSE [st EXCEPT !.in_quotes = TRUE]
    ELSE IF c = SPACE /\ ~st.in_quotes THEN
        [st EXCEPT !.parts = FlushNonEmpty(st.parts, st.current), !.current = <<>>]
    ELSE [st EXCEPT !.current = Append(st.current, c)]

\* the while loop of lines 67-81 over line[lo..hi], left to right (written
\* by halves so that a long line does not nest the evaluation deeply)
RECURSIVE TokenizeRange(_, _, _, _)
TokenizeRange(line, lo, hi, st) ==
    IF lo > hi THEN st
    ELSE IF lo = hi THEN TokenizeChar(st, line[lo])
    ELSE LET mid == (lo + hi) \div 2
             left == TokenizeRange(line, lo, mid, st)
         IN  \* the test only makes the left half's value be computed first
             IF left.in_quotes \in BOOLEAN
             THEN TokenizeRange(line, mid + 1, hi, left)
             ELSE left

\* lines 62-84
Tokenize(line) ==
    LET st == TokenizeRange(line, 1, Len(line), TokenizerStart)
    IN  FlushNonEmpty(st.parts, st.current)

\* The source format: each field wrapped in double quotes, joined by one space.
Quoted(s) == <<QUOTE>> \o s \o <<QUOTE>>

RECURSIVE BuildLine(_)
BuildLine(fields) ==
    IF fields = <<>> THEN <<>>
    ELSE IF Len(fields) = 1 THEN Quoted(fields[1])
    ELSE Quoted(fields[1]) \o <<SPACE>> \o BuildLine(Tail(fields))

(***************************************************************************)
(* float(): decimal notation  [+-] digits [. digits]  or  [+-] . digits    *)
(* (exponents, inf/nan, underscores and surrounding blanks are outside the *)
(* model's alphabet).  The value is num / 10^scale, exactly.               *)
(***************************************************************************)
NotANumber == [ok |-> FALSE, num |-> 0, scale |-> 0]

RECURSIVE DigitsValue(_)
DigitsValue(ds) ==
    IF ds = <<>> THEN 0
    ELSE 10 * DigitsValue(SubSeq(ds, 1, Len(ds) - 1)) + DigitVal(ds[Len(ds)])

AllDigits(s) == \A i \in 1..Len(s) : IsDigit(s[i])

ParseUnsigned(s) ==
    LET dots == {i \in 1..Len(s) : s[i] = "."} IN
    IF Cardinality(dots) > 1 THEN NotANumber
    ELSE IF dots = {} THEN
        IF s # <<>> /\ AllDigits(s)
        THEN [ok |-> TRUE, num |-> DigitsValue(s), scale |-> 0]
        ELSE NotANumber
    ELSE
        LET d == CHOOSE i \in dots : TRUE
            ip == SubSeq(s, 1, d - 1)
            fp == SubSeq(s, d + 1, Len(s))
        IN  IF AllDigits(ip) /\ AllDigits(fp) /\ Len(ip) + Len(fp) > 0
            THEN [ok |-> TRUE, num |-> DigitsValue(ip \o fp), scale |-> Len(fp)]
            ELSE NotANumber

ParseFloat(s) ==
    IF s = <<>> THEN NotANumber
    ELSE IF s[1] = "-" THEN
        LET u == ParseUnsigned(Tail(s)) IN [u EXCEPT !.num = 0 - u.num]
    ELSE ParseUnsigned(s)

RECURSIVE Pow10(_)
Pow10(n) == IF n = 0 THEN 1 ELSE 10 * Pow10(n - 1)

\* a <= b on parsed floats, and comparison with an integer
FloatLeq(a, b) == a.num * Pow10(b.scale) <= b.num * Pow10(a.scale)
IntLeqFloat(n, a) == n * Pow10(a.scale) <= a.num
FloatLeqInt(a, n) == a.num <= n * Pow10(a.scale)
FloatLtInt(a, n) == a.num < n * Pow10(a.scale)
IntLtFloat(n, a) == n * Pow10(a.scale) < a.num

(***************************************************************************)
(* Tokenizer-only specification: the inputs are drawn from bounded sets.   *)
(***************************************************************************)
MaxStrLen == 2
MaxFields == 3
MaxRawLen == 4

RECURSIVE StringsUpTo(_, _)
StringsUpTo(alphabet, n) ==
    IF n = 0 THEN {<<>>}
    ELSE LET shorter == StringsUpTo(alphabet, n - 1)
         IN  shorter \cup {Append(s, c) : s \in shorter, c \in alphabet}

\* strings that may hold spaces and hold no double quote
QuotableStrings == StringsUpTo({"a", SPACE}, MaxStrLen)
RawLines == StringsUpTo({"a", SPACE, QUOTE}, MaxRawLen)

RECURSIVE FieldSeqsUpTo(_)
FieldSeqsUpTo(n) ==
    IF n = 0 THEN {<<>>}
    ELSE LET shorter == FieldSeqsUpTo(n - 1)
         IN  shorter \cup {Append(fs, s) : fs \in shorter, s \in QuotableStrings}

NoParse == [kind |-> "none", fields |-> <<>>, line |-> <<>>, parts |-> <<>>]

\* one line is tokenized per run

ParseQuotedLine(fields) ==
    /\ parse = NoParse
    /\ parse' = [kind |-> "quoted", fields |-> fields, line |-> BuildLine(fields),
                 parts |-> Tokenize(BuildLine(fields))]
    /\ UNCHANGED <<hashes, zsets, index, REDISEARCH_AVAILABLE, tableBits, hashSeed, ret>>

ParseRawLine(line) ==
    /\ parse = NoParse
    /\ parse' = [kind |-> "raw", fields |-> <<>>, line |-> line, parts |-> Tokenize(line)]
    /\ UNCHANGED <<hashes, zsets, index, REDISEARCH_AVAILABLE, tableBits, hashSeed, ret>>

(***************************************************************************)
(* The store: hashes (HSET / HGET / HMGET / HGETALL)                       *)
(***************************************************************************)
\* Python's None (no character string equals it)
None == <<"<None>">>
EmptyDict == <<>>
\* None where the caller expects a dict (a record no dict of the model equals)
NoneDict == [none |-> TRUE]

Truthy(v) == v # None /\ v # <<>>

\* A plausible slip: writing a field appends to the value already there.
HSetAppending(h, key, mapping) ==
    IF key \in DOMAIN h
    THEN (key :> [f \in DOMAIN h[key] \cup DOMAIN mapping |->
                    IF f \in DOMAIN mapping
                    THEN (IF f \in DOMAIN h[key] THEN h[key][f] ELSE <<>>) \o mapping[f]
                    ELSE h[key][f]]) @@ h
    ELSE (key :> mapping) @@ h

\* line 103, pipe.hset(user_id, mapping=user_data): HSET sets the given fields
\* of the hash at key, creating the hash when absent; other fields are kept.
\* (f @@ g is f where f is defined and g elsewhere.)
HSet(h, key, mapping) ==
    IF key \in DOMAIN h
    THEN (key :> (mapping @@ h[key])) @@ h
    ELSE (key :> mapping) @@ h

HGet(h, key, field) ==
    IF key \in DOMAIN h /\ field \in DOMAIN h[key] THEN h[key][field] ELSE None

HGetAll(h, key) == IF key \in DOMAIN h THEN h[key] ELSE EmptyDict

\* dict.get(field) and dict.get(field, '')
DictGet(d, field) == IF field \in DOMAIN d THEN d[field] ELSE None
DictGetOr(d, field, default) == IF field \in DOMAIN d THEN d[field] ELSE default

(***************************************************************************)
(* load_users (lines 50-113)                                               *)
(***************************************************************************)
MinParts == 22

\* lines 87-100: the record a well-formed line's parts give
UserId(parts) == parts[1]

UserData(parts) ==
    [first_name   |-> parts[3],
     last_name    |-> parts[5],
     email        |-> parts[7],
     gender       |-> parts[9],
     ip_address   |-> parts[11],
     country      |-> parts[13],
     country_code |-> parts[15],
     city         |-> parts[17],
     longitude    |-> parts[19],
     latitude     |-> parts[21],
     last_login   |-> IF Len(parts) > MinParts THEN parts[23] ELSE parts[22]]

\* lines 60-104: the HSET commands queued on the pipeline, in line order
RECURSIVE QueuedHSets(_)
QueuedHSets(lines) ==
    IF lines = <<>> THEN <<>>
    ELSE LET parts == Tokenize(Head(lines))
             rest  == QueuedHSets(Tail(lines))
         IN  IF Len(parts) >= MinParts
             THEN <<[key |-> UserId(parts), mapping |-> UserData(parts)]>> \o rest
             ELSE rest

\* line 106, pipe.execute(): the queued commands applied in order
RECURSIVE ExecuteHSets(_, _)
ExecuteHSets(h, cmds) ==
    IF cmds = <<>> THEN h
    ELSE ExecuteHSets(HSet(h, Head(cmds).key, Head(cmds).mapping), Tail(cmds))

(***************************************************************************)
(* Text constants                                                          *)
(***************************************************************************)
T_first_name == <<"f", "i", "r", "s", "t", "_", "n", "a", "m", "e">>
T_last_name == <<"l", "a", "s", "t", "_", "n", "a", "m", "e">>
T_email == <<"e", "m", "a", "i", "l">>
T_gender == <<"g", "e", "n", "d", "e", "r">>
T_ip_address == <<"i", "p", "_", "a", "d", "d", "r", "e", "s", "s">>
T_country == <<"c", "o", "u", "n", "t", "r", "y">>
T_country_code == <<"c", "o", "u", "n", "t", "r", "y", "_", "c", "o", "d", "e">>
T_city == <<"c", "i", "t", "y">>
T_longitude == <<"l", "o", "n", "g", "i", "t", "u", "d", "e">>
T_latitude == <<"l", "a", "t", "i", "t", "u", "d", "e">>
T_last_login == <<"l", "a", "s", "t", "_", "l", "o", "g", "i", "n">>
UserPrefix == <<"u", "s", "e", "r", ":">>
LeaderboardPrefix == <<"l", "e", "a", "d", "e", "r", "b", "o", "a", "r", "d", ":">>
female == <<"f", "e", "m", "a", "l", "e">>
China == <<"C", "h", "i", "n", "a">>
Russia == <<"R", "u", "s", "s", "i", "a">>

(***************************************************************************)
(* Input files for load_users.  A row is written in the source format:     *)
(* the identifier, then each field name followed by its value.             *)
(***************************************************************************)
RowTokens(id, first, last, email, gender, country, lon, lat, login) ==
    << id, T_first_name, first, T_last_name, last, T_email, email,
       T_gender, gender, T_ip_address, <<"1", ".", "2", ".", "3", ".", "4">>,
       T_country, country, T_country_code, <<"X", "X">>, T_city, <<"Y">>,
       T_longitude, lon, T_latitude, lat, T_last_login, login >>

\* every token quoted
Row(id, first, last, email, gender, country, lon, lat, login) ==
    BuildLine(RowTokens(id, first, last, email, gender, country, lon, lat, login))

\* tokens written bare, separated by single spaces (for tokens without blanks)
RECURSIVE BareLine(_)
BareLine(tokens) ==
    IF tokens = <<>> THEN <<>>
    ELSE IF Len(tokens) = 1 THEN tokens[1]
    ELSE tokens[1] \o <<SPACE>> \o BareLine(Tail(tokens))

\* the first n tokens only
ShortRow(n, id, first, last, email, gender, country, lon, lat, login) ==
    BuildLine(SubSeq(RowTokens(id, first, last, email, gender, country, lon, lat, login), 1, n))

UsersA ==
    << Row(<<"u", "s", "e", "r", ":", "2">>, <<"M", "e", "i", " ", "L", "i", "n">>, <<"L", "i">>, <<"a", "@", "x">>, <<"f", "e", "m", "a", "l", "e">>, <<"C", "h", "i", "n", "a">>, <<"1", "1", "6", ".", "4">>, <<"4", "0">>, <<"1", "5", "0", "0">>),
       Row(<<"u", "s", "e", "r", ":", "3">>, <<"A", "n", "a">>, <<"O", "r", "l", "o", "v", "a">>, <<>>, <<"f", "e", "m", "a", "l", "e">>, <<"R", "u", "s", "s", "i", "a">>, <<"3", "7", ".", "6">>, <<"4", "6">>, <<"1", "5", "0", "0">>),
       Row(<<"u", "s", "e", "r", ":", "4", "1">>, <<"B", "o">>, <<"W", "u">>, <<"w", "@", "x">>, <<"f", "e", "m", "a", "l", "e">>, <<"C", "h", "i", "n", "a">>, <<"1", "2", "1", ".", "5">>, <<"4", "6", ".", "5">>, <<"1", "5", "0", "0">>) >>

UsersB ==
    << Row(<<"u", "s", "e", "r", ":", "2">>, <<"M", "e", "i", " ", "L", "i", "n">>, <<"L", "i">>, <<"a", "@", "x">>, <<"F", "e", "m", "a", "l", "e">>, <<"C", "h", "i", "n", "a">>, <<"1", "1", "6", ".", "4">>, <<"4", "2", ".", "5">>, <<"1", "5", "0", "0">>),
       Row(<<"u", "s", "e", "r", ":", "8">>, <<"E", "v", "a">>, <<>>, <<"e", "@", "x">>, <<"f", "e", "m", "a", "l", "e">>, <<"R", "u", "s", "s", "i", "a">>, <<"3", "0", ".", "3">>, <<"a", "b", "c">>, <<"1", "5", "0", "0">>),
       Row(<<"u", "s", "e", "r", ":", "3">>, <<"A", "n", "a">>, <<"O", "r", "l", "o", "v", "a">>, <<"o", "@", "x">>, <<"m", "a", "l", "e">>, <<"R", "u", "s", "s", "i", "a">>, <<"3", "7", ".", "6">>, <<"4", "5">>, <<"1", "5", "0", "0">>) >>

UsersC ==
    << ShortRow(21, <<"u", "s", "e", "r", ":", "6">>, <<"I", "d", "a">>, <<"K", "i", "m">>, <<"k", "@", "x">>, <<"f", "e", "m", "a", "l", "e">>, <<"C", "h", "i", "n", "a">>, <<"1", ".", "5">>, <<"4", "4">>, <<"1", "5", "0", "0">>),
       ShortRow(22, <<"u", "s", "e", "r", ":", "2", "4">>, <<"U", "m", "a">>, <<"Q", "i">>, <<"q", "@", "x">>, <<"f", "e", "m", "a", "l", "e">>, <<"C", "h", "i", "n", "a">>, <<"2", ".", "5">>, <<"4", "1">>, <<"1", "5", "0", "0">>),
       Row(<<"a", "c", "c", "t", ":", "4">>, <<"K", "a", "i">>, <<"R", "o", "e">>, <<"r", "@", "x">>, <<"f", "e", "m", "a", "l", "e">>, <<"C", "h", "i", "n", "a">>, <<"3", ".", "5">>, <<"4", "4">>, <<"1", "5", "0", "0">>),
       Row(<<"u", "s", "e", "r", ":", "8">>, <<"E", "v", "a">>, <<"S", "a", "t", "o">>, <<>>, <<"f", "e", "m", "a", "l", "e">>, <<"J", "a", "p", "a", "n">>, <<>>, <<"4", "3">>, <<"1", "5", "0", "0">>),
       Row(<<"u", "s", "e", "r", ":", "6", "0">>, <<"Z", "o", "e">>, <<"T", "a", "n">>, <<"t", "@", "x">>, <<"f", "e", "m", "a", "l", "e">>, <<"R", "u", "s", "s", "i", "a">>, <<"4", ".", "5">>, <<"3", "9", ".", "9">>, <<"1", "5", "0", "0">>),
       BareLine(RowTokens(<<"u", "s", "e", "r", ":", "6", "0">>, <<"Z", "o", "e">>, <<"T", "a", "n">>, <<"t", "@", "x">>, <<"f", "e", "m", "a", "l", "e">>, <<"R", "u", "s", "s", "i", "a">>, <<"4", ".", "5">>, <<"4", "5">>, <<"1", "5", "0", "0">>)) >>

MaxMembers == 11

RECURSIVE Digits(_)
Digits(i) ==
    IF i < 10 THEN <<DigitChars[i + 1]>>
    ELSE Digits(i \div 10) \o <<DigitChars[(i % 10) + 1]>>

\* users 1..MaxMembers: every fourth has an empty email, the seventh line is
\* short (malformed), so that user has no record
BigRow(i) ==
    IF i = 7
    THEN ShortRow(21, UserPrefix \o Digits(i), <<"N">>, <<"L">>, <<"m">>, female, China,
                  <<"1">>, <<"4", "1">>, <<"5">>)
    ELSE Row(UserPrefix \o Digits(i), <<"N">>, <<"L">>,
             IF i % 4 = 0 THEN <<>> ELSE <<"m">> \o Digits(i) \o <<"@", "x">>,
             female, China, <<"1">>, <<"4", "1">>, <<"5">>)

UsersBig == [i \in 1..MaxMembers |-> BigRow(i)]

\* users 1..MaxMembers, each with an email
UsersFull ==
    [i \in 1..MaxMembers |->
        Row(UserPrefix \o Digits(i), <<"N">>, <<"L">>, <<"e">> \o Digits(i) \o <<"@", "x">>,
            female, China, <<"1">>, <<"4", "1">>, <<"5">>)]

\* A source that cannot be opened (line 53 raises)
Missing == <<"<missing>">>

UserFileNames == {"UsersA", "UsersB", "UsersC", "UsersBig", "UsersFull", "NoSuchFile"}

\* codecs.open(file).read().strip().split('\n') of each source (lines 53-57);
\* strip() removes blanks at the ends of the content, which lie outside quotes
\* in these sources and produce no token.
UserFile ==
    [f \in UserFileNames |->
        CASE f = "UsersA" -> UsersA
          [] f = "UsersB" -> UsersB
          [] f = "UsersC" -> UsersC
          [] f = "UsersBig" -> UsersBig
          [] f = "UsersFull" -> UsersFull
          [] OTHER -> Missing]

\* lines 60-104 run on each source, evaluated once per source
QueuedA == QueuedHSets(UsersA)
QueuedB == QueuedHSets(UsersB)
QueuedC == QueuedHSets(UsersC)
QueuedBig == QueuedHSets(UsersBig)
QueuedFull == QueuedHSets(UsersFull)

QueuedFor(f) ==
    CASE f = "UsersA" -> QueuedA
      [] f = "UsersB" -> QueuedB
      [] f = "UsersC" -> QueuedC
      [] f = "UsersBig" -> QueuedBig
      [] f = "UsersFull" -> QueuedFull

\* load_users as a whole: [store after, value returned]
LoadUsersCall(h, f) ==
    IF UserFile[f] = Missing
    THEN [hashes |-> h, value |-> 0]                       \* lines 110-113
    ELSE [hashes |-> ExecuteHSets(h, QueuedFor(f)),        \* line 106
          value  |-> Len(QueuedFor(f))]                    \* lines 104, 108

(***************************************************************************)
(* String helpers: str.split(sep), str.startswith, comparison              *)
(***************************************************************************)
RECURSIVE SplitFrom(_, _, _, _)
SplitFrom(s, i, sep, current) ==
    IF i > Len(s) THEN <<current>>
    ELSE IF s[i] = sep THEN <<current>> \o SplitFrom(s, i + 1, sep, <<>>)
    ELSE SplitFrom(s, i + 1, sep, Append(current, s[i]))

Split(s, sep) == SplitFrom(s, 1, sep, <<>>)

StartsWith(s, prefix) ==
    Len(s) >= Len(prefix) /\ SubSeq(s, 1, Len(prefix)) = prefix

\* byte-wise (memcmp) order of two strings
LexLess(a, b) ==
    \E i \in 1..(Len(a) + 1) :
        /\ i <= Len(b)
        /\ SubSeq(a, 1, i - 1) = SubSeq(b, 1, i - 1)
        /\ (i > Len(a) \/ CharCode(a[i]) < CharCode(b[i]))

(***************************************************************************)
(* The store: SCAN.  Redis keeps the keys of a database in a hash table of *)
(* 2^tableBits buckets and SCAN walks the buckets in reverse-binary order  *)
(* of their index; the cursor is the index of the next bucket, 0 when the  *)
(* walk is over.  A cursor is masked to the table size.  The table size    *)
(* follows the number of keys of the whole database, of which the model    *)
(* tracks the few it loads itself.  SipHash is not modelled bit for bit:   *)
(* Hash is a seeded mixing function that stands for it.                    *)
(***************************************************************************)
MaxTableBits == 11

RECURSIVE Pow2(_)
Pow2(n) == IF n = 0 THEN 1 ELSE 2 * Pow2(n - 1)

RECURSIVE RevBits(_, _)
RevBits(v, n) == IF n = 0 THEN 0 ELSE (v % 2) * Pow2(n - 1) + RevBits(v \div 2, n - 1)

RECURSIVE KeySum(_)
KeySum(key) == IF key = <<>> THEN 0 ELSE CharCode(Head(key)) + KeySum(Tail(key))

Hash(key) == (KeySum(key) * (255 * hashSeed + 1)) % Pow2(MaxTableBits)

TableSize == Pow2(tableBits)

\* rank of the key's bucket in the order SCAN walks the buckets
Position(key) == RevBits(Hash(key) % TableSize, tableBits)
CursorPosition(cursor) == RevBits(cursor % TableSize, tableBits)
NextCursor(pos) == IF pos + 1 >= TableSize THEN 0 ELSE RevBits(pos + 1, tableBits)

AllKeys == DOMAIN hashes \cup DOMAIN zsets

\* every key of the database with the rank of its bucket
Placed == {[key |-> k, pos |-> Position(k)] : k \in AllKeys}

\* the order SCAN yields keys in: by bucket, then (store-defined) within a bucket
ScanBefore(a, b) ==
    \/ a.pos < b.pos
    \/ a.pos = b.pos /\ LexLess(a.key, b.key)

RECURSIVE InScanOrder(_)
InScanOrder(placed) ==
    IF placed = {} THEN <<>>
    ELSE LET first == CHOOSE k \in placed : \A o \in placed \ {k} : ScanBefore(k, o)
         IN  <<first.key>> \o InScanOrder(placed \ {first})

SetMin(S) == CHOOSE x \in S : \A y \in S : x <= y

\* One SCAN cursor MATCH prefix* COUNT count call: buckets are visited from the
\* cursor's until the walk ends, count keys were collected, or 10*count further
\* buckets were visited.  Returns the next cursor and the matching keys.
\* (placed: the key table, Placed, computed once per client loop.)
Scan(placed, cursor, prefix, count) ==
    LET pos  == CursorPosition(cursor)
        last == TableSize - 1
        UpTo(e) == {k \in placed : pos <= k.pos /\ k.pos <= e}
        stops == {last, pos + 10 * count} \cup
                 {k.pos : k \in {j \in placed : j.pos >= pos
                                    /\ Cardinality(UpTo(j.pos)) >= count}}
        e == SetMin({q \in stops : q <= last})
    IN  [cursor |-> NextCursor(e),
         keys   |-> InScanOrder({k \in UpTo(e) : StartsWith(k.key, prefix)})]

(***************************************************************************)
(* The store: RediSearch.  An index covers the hashes whose key has its    *)
(* prefix; a hash with a NUMERIC field that is not a number is not         *)
(* indexed.  A TAG field holds comma-separated tags, trimmed and compared  *)
(* without regard to case (TagField's default).                            *)
(***************************************************************************)
NoIndex == [name |-> "", prefix |-> <<>>, text |-> {}, tag |-> {}, numeric |-> {}]

\* lines 156-172
UserIndex ==
    [name    |-> "user_index",
     prefix  |-> UserPrefix,
     text    |-> {"first_name", "last_name", "email", "city"},
     tag     |-> {"gender", "country", "country_code"},
     numeric |-> {"latitude", "longitude", "last_login"}]

UpperFirst == CharCode("A")
LowerFirst == CharCode("a")

LowerChar(c) ==
    IF CharCode(c) >= UpperFirst /\ CharCode(c) < UpperFirst + 26
    THEN AsciiOrder[CharCode(c) - UpperFirst + LowerFirst]
    ELSE c

LowerStr(s) == [i \in 1..Len(s) |-> LowerChar(s[i])]

RECURSIVE Trim(_)
Trim(s) ==
    IF s = <<>> THEN s
    ELSE IF Head(s) = SPACE THEN Trim(Tail(s))
    ELSE IF s[Len(s)] = SPACE THEN Trim(SubSeq(s, 1, Len(s) - 1))
    ELSE s

Tags(value) == {LowerStr(Trim(t)) : t \in SeqToSet(Split(value, ","))} \ {<<>>}

TagMatch(doc, field, tag) ==
    field \in DOMAIN doc /\ LowerStr(tag) \in Tags(doc[field])

NumericMatch(doc, field, lo, hi) ==
    /\ field \in DOMAIN doc
    /\ LET v == ParseFloat(doc[field])
       IN  v.ok /\ IntLeqFloat(lo, v) /\ FloatLeqInt(v, hi)

IndexedKeys(idx) ==
    {k \in DOMAIN hashes :
        /\ StartsWith(k, idx.prefix)
        /\ \A f \in idx.numeric : f \in DOMAIN hashes[k] => ParseFloat(hashes[k][f]).ok}

(***************************************************************************)
(* create_index (lines 149-184)                                            *)
(***************************************************************************)
\* which way a call goes: line 150, the except branch of 178-184, or line 174
CreateIndexOutcome(idx, backendFails) ==
    IF ~REDISEARCH_AVAILABLE THEN "unavailable"
    ELSE IF backendFails THEN "failed"
    ELSE IF idx # NoIndex THEN "exists"        \* FT.CREATE: "Index already exists"
    ELSE "created"

\* A plausible slip: the "already exists" error is reported as a failure.
CreateIndexReturnExistsFails(outcome) == outcome = "created"

\* the value returned at lines 152, 176, 181 and 184
CreateIndexReturn(outcome) ==
    CASE outcome = "unavailable" -> FALSE
      [] outcome = "created"     -> TRUE
      [] outcome = "exists"      -> TRUE
      [] outcome = "failed"      -> FALSE

\* line 174: the schema is stored when FT.CREATE succeeds
CreateIndexStore(idx, outcome) == IF outcome = "created" THEN UserIndex ELSE idx

(***************************************************************************)
(* query1, query2 (lines 189-230)                                          *)
(***************************************************************************)
UserKey(usr) == UserPrefix \o usr

Query1Result(usr) == HGetAll(hashes, UserKey(usr))

\* A plausible slip: the two fields are fetched in the other order.
Query2Swapped(usr) ==
    LET coordinates == <<HGet(hashes, UserKey(usr), "latitude"),
                         HGet(hashes, UserKey(usr), "longitude")>>
    IN  IF Truthy(coordinates[1]) /\ Truthy(coordinates[2])
        THEN [longitude |-> coordinates[1], latitude |-> coordinates[2]]
        ELSE NoneDict

Query2Result(usr) ==
    LET coordinates == <<HGet(hashes, UserKey(usr), "longitude"),
                         HGet(hashes, UserKey(usr), "latitude")>>
    IN  IF Truthy(coordinates[1]) /\ Truthy(coordinates[2])
        THEN [longitude |-> coordinates[1], latitude |-> coordinates[2]]
        ELSE NoneDict

(***************************************************************************)
(* query3 (lines 235-272)                                                  *)
(***************************************************************************)
Query3StartCursor == 1280
Query3Count == 10
EvenDigits == {"0", "2", "4", "6", "8"}

\* lines 248-257 on one batch of keys: the (key, last_name) pairs collected
RECURSIVE Query3Batch(_)
Query3Batch(keys) ==
    IF keys = <<>> THEN <<>>
    ELSE LET key == Head(keys)
             user_num == Split(key, ":")[2]
             last_name == HGet(hashes, key, "last_name")
         IN  IF user_num # <<>> /\ user_num[1] \in EvenDigits /\ Truthy(last_name)
             THEN <<[key |-> key, last_name |-> last_name]>> \o Query3Batch(Tail(keys))
             ELSE Query3Batch(Tail(keys))

\* lines 245-261
RECURSIVE Query3Loop(_, _, _)
Query3Loop(placed, cursor, found) ==
    LET r == Scan(placed, cursor, UserPrefix, Query3Count)
        found2 == found \o Query3Batch(r.keys)
    IN  IF r.cursor = 0 THEN found2 ELSE Query3Loop(placed, r.cursor, found2)

\* line 268: userids, result_lastnames
Query3Result ==
    LET found == Query3Loop(Placed, Query3StartCursor, <<>>)
    IN  [userids |-> [i \in 1..Len(found) |-> found[i].key],
         result_lastnames |-> [i \in 1..Len(found) |-> found[i].last_name]]

(***************************************************************************)
(* query4 (lines 277-353)                                                  *)
(***************************************************************************)
LatMin == 40
LatMax == 46
Query4StartCursor == 0
Query4Count == 100
SearchPageSize == 10

\* lines 294-301 and 331-338
UserInfo(key, d) ==
    [id         |-> key,
     first_name |-> DictGetOr(d, "first_name", <<>>),
     last_name  |-> DictGetOr(d, "last_name", <<>>),
     country    |-> DictGetOr(d, "country", <<>>),
     latitude   |-> DictGetOr(d, "latitude", <<>>),
     email      |-> DictGetOr(d, "email", <<>>)]

\* line 285: @gender:{female} ((@country:{China}) | (@country:{Russia})) @latitude:[40 46]
SearchMatch(doc) ==
    /\ TagMatch(doc, "gender", female)
    /\ (TagMatch(doc, "country", China) \/ TagMatch(doc, "country", Russia))
    /\ NumericMatch(doc, "latitude", LatMin, LatMax)

SearchHits(idx) == {k \in IndexedKeys(idx) : SearchMatch(hashes[k])}

\* line 288: Query(...) carries the default paging, LIMIT 0 10, so result.docs
\* holds at most 10 of the hits (which ones is the store's choice).
SearchPages(idx) ==
    IF Cardinality(SearchHits(idx)) <= SearchPageSize THEN {SearchHits(idx)}
    ELSE {p \in SUBSET SearchHits(idx) : Cardinality(p) = SearchPageSize}

\* lines 292-306
RECURSIVE DocsInfo(_)
DocsInfo(keys) ==
    IF keys = <<>> THEN <<>>
    ELSE <<UserInfo(Head(keys), hashes[Head(keys)])>> \o DocsInfo(Tail(keys))

\* A plausible slip: the range test excludes its end points.
ManualMatchExclusive(user_data) ==
    /\ DictGet(user_data, "gender") = female
    /\ DictGet(user_data, "country") \in {China, Russia}
    /\ Truthy(DictGet(user_data, "latitude"))
    /\ LET lat == ParseFloat(user_data["latitude"])
       IN  lat.ok /\ IntLtFloat(LatMin, lat) /\ FloatLtInt(lat, LatMax)

\* lines 324-343: float() raising ValueError skips the record
ManualMatch(user_data) ==
    /\ DictGet(user_data, "gender") = female
    /\ DictGet(user_data, "country") \in {China, Russia}
    /\ Truthy(DictGet(user_data, "latitude"))
    /\ LET lat == ParseFloat(user_data["latitude"])
       IN  lat.ok /\ IntLeqFloat(LatMin, lat) /\ FloatLeqInt(lat, LatMax)

RECURSIVE Query4Batch(_)
Query4Batch(keys) ==
    IF keys = <<>> THEN <<>>
    ELSE LET user_data == HGetAll(hashes, Head(keys))
         IN  IF ManualMatch(user_data)
             THEN <<UserInfo(Head(keys), user_data)>> \o Query4Batch(Tail(keys))
             ELSE Query4Batch(Tail(keys))

\* lines 318-346
\* (scanned: the keys the SCAN calls returned, kept for the properties)
RECURSIVE Query4Loop(_, _, _, _)
Query4Loop(placed, cursor, users_info, scanned) ==
    LET r == Scan(placed, cursor, UserPrefix, Query4Count)
        users2 == users_info \o Query4Batch(r.keys)
        scanned2 == scanned \o r.keys
    IN  IF r.cursor = 0
        THEN [users_info |-> users2, scanned |-> scanned2]
        ELSE Query4Loop(placed, r.cursor, users2, scanned2)

ManualSearch == Query4Loop(Placed, Query4StartCursor, <<>>, <<>>)

(***************************************************************************)
(* The store: sorted sets (ZADD / ZREVRANGE)                               *)
(***************************************************************************)
\* a score as the store keeps it: num / 10^scale without trailing zeros,
\* so that 90 and 90.0 are the same score
RECURSIVE Normal(_)
Normal(v) ==
    IF v.scale > 0 /\ v.num % 10 = 0
    THEN Normal([v EXCEPT !.num = v.num \div 10, !.scale = v.scale - 1])
    ELSE v

\* ZADD key score member: 1 when the member is new, 0 when its score is updated
ZAddReply(z, key, member) ==
    IF key \in DOMAIN z /\ member \in DOMAIN z[key] THEN 0 ELSE 1

ZAdd(z, key, member, score) ==
    IF key \in DOMAIN z
    THEN (key :> ((member :> score) @@ z[key])) @@ z
    ELSE (key :> (member :> score)) @@ z

ZMembers(z, key) == IF key \in DOMAIN z THEN DOMAIN z[key] ELSE {}

\* rank order of ZREVRANGE: score descending, equal scores by member descending
RevRankBefore(zs, a, b) ==
    \/ ~FloatLeq(zs[a], zs[b])
    \/ zs[a] = zs[b] /\ LexLess(b, a)

\* A plausible slip: ZRANGE instead of ZREVRANGE (lowest scores first).
RankBeforeAscending(zs, a, b) ==
    \/ ~FloatLeq(zs[b], zs[a])
    \/ zs[a] = zs[b] /\ LexLess(a, b)

RankBefore(zs, a, b) == RevRankBefore(zs, a, b)

RECURSIVE Ranked(_, _)
Ranked(zs, members) ==
    IF members = {} THEN <<>>
    ELSE LET first == CHOOSE m \in members : \A o \in members \ {m} : RankBefore(zs, m, o)
         IN  <<[member |-> first, score |-> zs[first]]>> \o Ranked(zs, members \ {first})

\* ZREVRANGE key start stop WITHSCORES, for 0 <= start <= stop
ZRevRange(z, key, start, stop) ==
    IF key \notin DOMAIN z THEN <<>>
    ELSE LET all == Ranked(z[key], DOMAIN z[key])
         IN  SubSeq(all, start + 1, IF stop + 1 < Len(all) THEN stop + 1 ELSE Len(all))

(***************************************************************************)
(* load_scores (lines 118-144)                                             *)
(***************************************************************************)
LeaderboardKey(leaderboard) == LeaderboardPrefix \o leaderboard

\* lines 127-135: the ZADD commands queued; float() raising on a row leaves
\* the loop through the except clause of line 141, before line 137
ScoresRaise(rows) == \E i \in 1..Len(rows) : ~ParseFloat(rows[i].score).ok

\* line 137, pipe.execute(): the queued ZADDs applied in order; the replies
RECURSIVE ExecuteZAdds(_, _, _)
ExecuteZAdds(z, rows, replies) ==
    IF rows = <<>> THEN [zsets |-> z, value |-> replies]
    ELSE LET row == Head(rows)
             key == LeaderboardKey(row.leaderboard)
         IN  ExecuteZAdds(ZAdd(z, key, row.user_id, Normal(ParseFloat(row.score))),
                          Tail(rows),
                          Append(replies, ZAddReply(z, key, row.user_id)))

\* load_scores as a whole: [store after, value returned]
LoadScoresCall(z, rows) ==
    IF ScoresRaise(rows)
    THEN [zsets |-> z, value |-> <<>>]           \* lines 141-144
    ELSE ExecuteZAdds(z, rows, <<>>)             \* lines 137-139

(***************************************************************************)
(* query5 (lines 358-377)                                                  *)
(***************************************************************************)
TopFirst == 0
TopLast == 9
Leaderboard2 == LeaderboardKey(<<"2">>)

\* line 362
TopUsers == ZRevRange(zsets, Leaderboard2, TopFirst, TopLast)

\* lines 367-371: the members whose email is kept, in rank order
RECURSIVE Query5Kept(_)
Query5Kept(top_users) ==
    IF top_users = <<>> THEN <<>>
    ELSE LET email == HGet(hashes, Head(top_users).member, "email")
         IN  IF Truthy(email)
             THEN <<[member |-> Head(top_users).member, email |-> email]>>
                  \o Query5Kept(Tail(top_users))
             ELSE Query5Kept(Tail(top_users))

(***************************************************************************)
(* Input files for load_scores: the rows csv.DictReader yields             *)
(***************************************************************************)
\* pattern 1: scores rise with the identifier; 2: all equal; 3: two values
ScoreText(pattern, i) ==
    CASE pattern = 1 -> Digits(10 * i)
      [] pattern = 2 -> <<"9", "0">>
      [] OTHER       -> IF i % 2 = 0 THEN <<"9", "0", ".", "5">> ELSE <<"5", "0", ".", "0">>

\* n rows for users 1..n on one leaderboard; row `bad` (if any) has a score
\* that is not a number
ScoreRows(file) ==
    [i \in 1..file.n |->
        [user_id     |-> UserPrefix \o Digits(i),
         score       |-> IF i = file.bad THEN <<"x">> ELSE ScoreText(file.pattern, i),
         leaderboard |-> file.board]]

BigScoreFiles ==
    [n : {2, MaxMembers}, pattern : 1..3, bad : {0, 2}, board : {<<"2">>}]
    \cup [n : {2}, pattern : {1}, bad : {0}, board : {<<"1">>}]

(***************************************************************************)
(* The calls of RedisClient as actions                                     *)
(***************************************************************************)
NoCall == [op |-> "none"]

\* The caller runs one call at a time (a single thread of control): a call
\* starts when the previous one has returned.
Idle == ret.op = "none"

LoadUsers(f) ==
    LET r == LoadUsersCall(hashes, f)
    IN  /\ Idle
        /\ hashes' = r.hashes
        /\ ret' = [op |-> "load_users", file |-> f, value |-> r.value, before |-> hashes]
        /\ UNCHANGED <<parse, zsets, index, REDISEARCH_AVAILABLE, tableBits, hashSeed>>

LoadScores(file) ==
    LET r == LoadScoresCall(zsets, ScoreRows(file))
    IN  /\ Idle
        /\ zsets' = r.zsets
        /\ ret' = [op |-> "load_scores", file |-> file, value |-> r.value]
        /\ UNCHANGED <<parse, hashes, index, REDISEARCH_AVAILABLE, tableBits, hashSeed>>

CreateIndex(backendFails) ==
    LET outcome == CreateIndexOutcome(index, backendFails)
    IN  /\ Idle
        /\ index' = CreateIndexStore(index, outcome)
        /\ ret' = [op |-> "create_index", backendFails |-> backendFails,
                   outcome |-> outcome, value |-> CreateIndexReturn(outcome),
                   before |-> index]
        /\ UNCHANGED <<parse, hashes, zsets, REDISEARCH_AVAILABLE, tableBits, hashSeed>>

Query1(usr) ==
    /\ Idle
    /\ ret' = [op |-> "query1", usr |-> usr, value |-> Query1Result(usr)]
    /\ UNCHANGED <<parse, hashes, zsets, index, REDISEARCH_AVAILABLE, tableBits, hashSeed>>

Query2(usr) ==
    /\ Idle
    /\ ret' = [op |-> "query2", usr |-> usr, value |-> Query2Result(usr)]
    /\ UNCHANGED <<parse, hashes, zsets, index, REDISEARCH_AVAILABLE, tableBits, hashSeed>>

Query3 ==
    /\ Idle
    /\ ret' = [op |-> "query3", value |-> Query3Result]
    /\ UNCHANGED <<parse, hashes, zsets, index, REDISEARCH_AVAILABLE, tableBits, hashSeed>>

\* createFails: FT.CREATE fails on a backend error; searchFails: FT.SEARCH does.
\* FT.SEARCH also fails when the index does not exist.
Query4(createFails, searchFails) ==
    LET outcome == CreateIndexOutcome(index, createFails)
        idx     == CreateIndexStore(index, outcome)                     \* line 282
        raised  == searchFails \/ idx = NoIndex                         \* line 288
    IN  /\ Idle
        /\ index' = idx
        /\ IF REDISEARCH_AVAILABLE /\ ~raised
           THEN \E page \in SearchPages(idx) :
                  ret' = [op |-> "query4", path |-> "indexed", searchFailed |-> FALSE,
                          value |-> DocsInfo(InScanOrder({k \in Placed : k.key \in page})),
                          scanned |-> <<>>]
           ELSE LET manual == ManualSearch
                IN  ret' = [op |-> "query4", path |-> "manual",
                            searchFailed |-> REDISEARCH_AVAILABLE,
                            value |-> manual.users_info,
                            scanned |-> manual.scanned]
        /\ UNCHANGED <<parse, hashes, zsets, REDISEARCH_AVAILABLE, tableBits, hashSeed>>

Query5 ==
    LET kept == Query5Kept(TopUsers)
    IN  /\ Idle
        /\ ret' = [op |-> "query5",
                   value |-> [i \in 1..Len(kept) |-> kept[i].email],
                   members |-> [i \in 1..Len(kept) |-> kept[i].member]]
        /\ UNCHANGED <<parse, hashes, zsets, index, REDISEARCH_AVAILABLE, tableBits, hashSeed>>

\* the call returns to the caller
Return ==
    /\ ~Idle
    /\ ret' = NoCall
    /\ UNCHANGED <<parse, hashes, zsets, index, REDISEARCH_AVAILABLE, tableBits, hashSeed>>

(***************************************************************************)
(* Specifications                                                          *)
(***************************************************************************)
MaxSeed == 1
EmptyStore == [k \in {} |-> <<>>]
QueryIds == {<<"2">>, <<"3">>, <<"8">>, <<"2", "4">>, <<"9">>}

\* User records, the index and queries 1-4 against one server: the import
\* outcome, the table size and the hash seed are fixed when the process and the
\* server start.  (The leaderboard calls, which share no data with these but
\* the user hashes, are in SpecScores.)
Init ==
    /\ parse = NoParse
    /\ hashes = EmptyStore
    /\ zsets = EmptyStore
    /\ index = NoIndex
    /\ REDISEARCH_AVAILABLE \in BOOLEAN
    /\ tableBits \in {2, MaxTableBits}
    /\ hashSeed \in 0..MaxSeed
    /\ ret = NoCall

Next ==
    \/ \E f \in {"UsersA", "UsersB", "UsersC", "UsersBig", "NoSuchFile"} : LoadUsers(f)
    \/ \E backendFails \in BOOLEAN : CreateIndex(backendFails)
    \/ \E usr \in QueryIds : Query1(usr)
    \/ \E usr \in QueryIds : Query2(usr)
    \/ Query3
    \/ \E createFails \in BOOLEAN, searchFails \in BOOLEAN : Query4(createFails, searchFails)
    \/ Return

Spec == Init /\ [][Next]_vars

\* Leaderboards: load_users, load_scores and query5 with up to MaxMembers
\* members (these calls read neither the index nor the key-space table).
InitScores ==
    /\ parse = NoParse
    /\ hashes = EmptyStore
    /\ zsets = EmptyStore
    /\ index = NoIndex
    /\ REDISEARCH_AVAILABLE = FALSE
    /\ tableBits = 2
    /\ hashSeed = 0
    /\ ret = NoCall

NextScores ==
    \/ \E f \in {"UsersBig", "UsersFull"} : LoadUsers(f)
    \/ \E file \in BigScoreFiles : LoadScores(file)
    \/ Query5
    \/ Return

SpecScores == InitScores /\ [][NextScores]_vars

\* The tokenizer alone, on bounded inputs.
InitParser == InitScores

NextParser ==
    \/ \E fields \in FieldSeqsUpTo(MaxFields) : ParseQuotedLine(fields)
    \/ \E line \in RawLines : ParseRawLine(line)

SpecParser == InitParser /\ [][NextParser]_vars

(***************************************************************************)
(* Properties                                                              *)
(***************************************************************************)
UserKeys == {k \in DOMAIN hashes : StartsWith(k, UserPrefix)}

\* the identifier of a user key: what follows "user:"
Identifier(k) == SubSeq(k, Len(UserPrefix) + 1, Len(k))

NoRepeats(seq) == Cardinality(SeqToSet(seq)) = Len(seq)

\* gender = female, country in {China, Russia}, latitude a number in [40, 46]
Q4Predicate(rec) ==
    /\ rec.gender = female
    /\ rec.country = China \/ rec.country = Russia
    /\ ParseFloat(rec.latitude).ok
    /\ 40 * Pow10(ParseFloat(rec.latitude).scale) <= ParseFloat(rec.latitude).num
    /\ ParseFloat(rec.latitude).num <= 46 * Pow10(ParseFloat(rec.latitude).scale)

Q4Expected ==
    {[id |-> k, first_name |-> hashes[k].first_name, last_name |-> hashes[k].last_name,
      country |-> hashes[k].country, latitude |-> hashes[k].latitude,
      email |-> hashes[k].email] : k \in {u \in UserKeys : Q4Predicate(hashes[u])}}

\* C1 (as claimed): whenever Query4 answers through the index, its result is,
\* as a set, the result of the manual scan on the same store: the records with
\* gender = female, country in {China, Russia} and latitude within [40, 46].
C1_IndexedEqualsManual ==
    (ret.op = "query4" /\ ret.path = "indexed") =>
        /\ SeqToSet(ret.value) = SeqToSet(ManualSearch.users_info)
        /\ SeqToSet(ret.value) = Q4Expected

\* C2 (as claimed): Query3 returns exactly the user keys whose identifier
\* starts with 0, 2, 4, 6 or 8, each with its last_name.
C2_Query3Exact ==
    ret.op = "query3" =>
        /\ SeqToSet(ret.value.userids) =
              {k \in UserKeys : Identifier(k) # <<>> /\ Identifier(k)[1] \in EvenDigits}
        /\ Len(ret.value.result_lastnames) = Len(ret.value.userids)
        /\ \A i \in 1..Len(ret.value.userids) :
              ret.value.result_lastnames[i] = hashes[ret.value.userids[i]].last_name

\* C3 (as claimed): after LoadScoreEntries read a source with one row whose
\* score is not a number, every other row is in its leaderboard with its score
\* and the outcome reported covers exactly the valid rows.
BadRows(rows) == {i \in 1..Len(rows) : ~ParseFloat(rows[i].score).ok}

C3_BadRowSkipped ==
    (ret.op = "load_scores" /\ Cardinality(BadRows(ScoreRows(ret.file))) = 1) =>
        LET rows == ScoreRows(ret.file)
            valid == (1..Len(rows)) \ BadRows(rows)
        IN  /\ \A i \in valid :
                  /\ rows[i].user_id \in ZMembers(zsets, LeaderboardKey(rows[i].leaderboard))
                  /\ zsets[LeaderboardKey(rows[i].leaderboard)][rows[i].user_id]
                        = Normal(ParseFloat(rows[i].score))
            /\ Len(ret.value) = Cardinality(valid)

\* C4: a line built by wrapping each string (no double quote inside, spaces
\* and the empty string allowed) in double quotes and joining with single
\* spaces is tokenized into exactly those strings, in order.
C4_ParserRoundTrip ==
    parse.kind = "quoted" => parse.parts = parse.fields

C4_Witness ==
    /\ parse.kind = "quoted"
    /\ Len(parse.fields) = MaxFields
    /\ \E i \in 1..Len(parse.fields) : parse.fields[i] = <<>>
    /\ \E i \in 1..Len(parse.fields) : SPACE \in SeqToSet(parse.fields[i])
    /\ parse.parts = parse.fields

\* C5: after LoadUserRecords ran on a source, running it again on the same
\* source leaves the store as it is and returns the same count; each identifier
\* of the source has one record, holding the values of its last line.
LastQueued(cmds, key) ==
    cmds[CHOOSE i \in 1..Len(cmds) :
            cmds[i].key = key /\ \A j \in (i + 1)..Len(cmds) : cmds[j].key # key].mapping

C5_LoadIdempotent ==
    (ret.op = "load_users" /\ ret.file # "NoSuchFile") =>
        /\ LoadUsersCall(hashes, ret.file) = [hashes |-> hashes, value |-> ret.value]
        /\ \A i \in 1..Len(QueuedFor(ret.file)) :
              /\ QueuedFor(ret.file)[i].key \in DOMAIN hashes
              /\ hashes[QueuedFor(ret.file)[i].key]
                    = LastQueued(QueuedFor(ret.file), QueuedFor(ret.file)[i].key)
        /\ DOMAIN hashes =
              DOMAIN ret.before \cup {QueuedFor(ret.file)[i].key : i \in 1..Len(QueuedFor(ret.file))}

\* a load of a source over a store that already held that source's records
C5_Witness ==
    /\ ret.op = "load_users"
    /\ ret.value > 1
    /\ ret.before # EmptyStore
    /\ ret.before = hashes
    /\ \E i \in 1..Len(QueuedFor(ret.file)), j \in 1..Len(QueuedFor(ret.file)) :
          i < j /\ QueuedFor(ret.file)[i].key = QueuedFor(ret.file)[j].key

\* C6 (as claimed): for every identifier whose record is in the store, Query2
\* returns a longitude and a latitude equal to those of the record Query1 returns.
C6_Query2MatchesQuery1 ==
    (ret.op = "query2" /\ UserKey(ret.usr) \in DOMAIN hashes) =>
        /\ ret.value # NoneDict
        /\ ret.value.longitude = Query1Result(ret.usr).longitude
        /\ ret.value.latitude = Query1Result(ret.usr).latitude

\* C6 (amended): for every identifier whose record is in the store with a
\* non-empty longitude and a non-empty latitude, Query2 returns both, equal to
\* the fields of the record Query1 returns; when either is empty Query2
\* reports not found.
C6_Query2MatchesQuery1NonEmpty ==
    (ret.op = "query2" /\ UserKey(ret.usr) \in DOMAIN hashes) =>
        LET record == Query1Result(ret.usr)
        IN  IF record.longitude # <<>> /\ record.latitude # <<>>
            THEN /\ ret.value # NoneDict
                 /\ ret.value.longitude = record.longitude
                 /\ ret.value.latitude = record.latitude
            ELSE ret.value = NoneDict

C6_Witness ==
    /\ ret.op = "query2"
    /\ UserKey(ret.usr) \in DOMAIN hashes
    /\ ret.value # NoneDict
    /\ ret.value.longitude # ret.value.latitude
    /\ ret.value.latitude = hashes[UserKey(ret.usr)].latitude

\* C7: Query5 returns the emails of the 10 highest-scoring members of
\* leaderboard 2 in descending score order: no member follows one with a lower
\* score, at most 10 emails are returned, every member returned is among the
\* 10 highest, and a member among them is returned exactly when its record has
\* a non-empty email.
Board2 == IF Leaderboard2 \in DOMAIN zsets THEN zsets[Leaderboard2] ELSE EmptyStore

Higher(m) == {o \in DOMAIN Board2 : ~FloatLeq(Board2[o], Board2[m])}
AtLeast(m) == {o \in DOMAIN Board2 \ {m} : FloatLeq(Board2[m], Board2[o])}
HasEmail(m) == m \in DOMAIN hashes /\ hashes[m].email # <<>>

C7_Query5Ranking ==
    ret.op = "query5" =>
        /\ Len(ret.value) <= 10
        /\ Len(ret.members) = Len(ret.value)
        /\ NoRepeats(ret.members)
        /\ \A i \in 1..Len(ret.value) :
              /\ ret.value[i] # <<>>
              /\ ret.members[i] \in DOMAIN Board2
              /\ HasEmail(ret.members[i])
              /\ ret.value[i] = hashes[ret.members[i]].email
              /\ Cardinality(Higher(ret.members[i])) < 10
        /\ \A i \in 1..Len(ret.value), j \in 1..Len(ret.value) :
              i < j => FloatLeq(Board2[ret.members[j]], Board2[ret.members[i]])
        /\ \A m \in DOMAIN Board2 :
              (Cardinality(AtLeast(m)) < 10 /\ HasEmail(m)) => m \in SeqToSet(ret.members)

\* more than ten members; one of the ten highest has a record without email
\* and is left out, one with an email is left out by rank, and the members
\* returned have different scores
C7_Witness ==
    /\ ret.op = "query5"
    /\ Cardinality(DOMAIN Board2) > 10
    /\ \E m \in DOMAIN Board2 :
          /\ Cardinality(AtLeast(m)) < 10
          /\ m \in DOMAIN hashes /\ hashes[m].email = <<>>
          /\ m \notin SeqToSet(ret.members)
    /\ \E m \in DOMAIN Board2 : HasEmail(m) /\ m \notin SeqToSet(ret.members)
    /\ \E i \in 1..Len(ret.value), j \in 1..Len(ret.value) :
          ~FloatLeq(Board2[ret.members[i]], Board2[ret.members[j]])

\* ten emails are returned while another member has an email
C7_TenReturned ==
    /\ ret.op = "query5"
    /\ Len(ret.value) = 10
    /\ \E m \in DOMAIN Board2 : HasEmail(m) /\ m \notin SeqToSet(ret.members)

\* C8: with the indexing capability available and no backend error, a
\* CreateIndex call reports success; the first creates the schema, a later one
\* leaves the existing schema as it is.
C8_CreateIndexIdempotent ==
    (ret.op = "create_index" /\ REDISEARCH_AVAILABLE /\ ~ret.backendFails) =>
        /\ ret.value = TRUE
        /\ index = UserIndex
        /\ ret.before # NoIndex => index = ret.before

C8_Witness ==
    /\ ret.op = "create_index"
    /\ REDISEARCH_AVAILABLE /\ ~ret.backendFails
    /\ ret.before = UserIndex
    /\ ret.value = TRUE

\* C9 (as claimed): the value CreateIndex returns when it failed on a backend
\* error differs from the value it returns when indexing is unavailable.
C9_UnavailableDistinctFromFailed ==
    (ret.op = "create_index" /\ ret.outcome = "failed") =>
        ret.value # CreateIndexReturn("unavailable")

\* C10: when indexing is unavailable or the indexed search fails, Query4 runs
\* the manual scan over all user record keys and returns the records that
\* satisfy the predicate; a record whose latitude is not a number does not
\* match and does not stop the scan.
C10_FallbackScansAll ==
    (ret.op = "query4" /\ (~REDISEARCH_AVAILABLE \/ ret.searchFailed)) =>
        /\ ret.path = "manual"
        /\ SeqToSet(ret.scanned) = UserKeys
        /\ SeqToSet(ret.value) = Q4Expected
        /\ NoRepeats(ret.value)

\* the indexed search failed, a record with a non-numeric latitude is in the
\* store and records at both ends of the range were returned
C10_Witness ==
    /\ ret.op = "query4"
    /\ REDISEARCH_AVAILABLE /\ ret.searchFailed
    /\ ret.path = "manual"
    /\ \E k \in UserKeys :
          /\ hashes[k].gender = female /\ hashes[k].country = Russia
          /\ ~ParseFloat(hashes[k].latitude).ok
    /\ \E i \in 1..Len(ret.value) : ParseFloat(ret.value[i].latitude).num = 46
    /\ Cardinality(UserKeys) > 3

====
